---- MODULE Spec2Model ----
(***************************************************************************)
(* A model of the displacer preview component (DisplacementPreview), its   *)
(* capture pipeline (captureImage, captureGif) and the media hook that      *)
(* feeds it (useMediaStream).                                               *)
(*                                                                          *)
(* Numbers.  JavaScript numbers that reach captureGif are modelled as       *)
(* records: a finite value in fixed point, or NaN, Infinity, -Infinity.     *)
(* duration is held in milliseconds, fps in tenths of a frame per second,   *)
(* scale in hundredths.  Presentation timestamps are whole milliseconds.    *)
(* frameIntervalMs = 1000 / sanitizedFps is not an integer in general; the  *)
(* model keeps it as the exact fraction 1000/sanitizedFps and compares      *)
(* times after multiplying both sides by sanitizedFps.                      *)
(***************************************************************************)
EXTENDS Integers, Sequences, FiniteSets, TLC

VARIABLES
    now,          \* timestamp handed to the callbacks of the current frame (ms)
    rafQueue,     \* callbacks registered with requestAnimationFrame, in order
    running,      \* callbacks of the frame being presented that have yet to run
    canvas,       \* the <canvas>: attached to canvasRef?, width, height
    comp,         \* refs and React state of the mounted DisplacementPreview
    gpu,          \* the WebGL context of the instance's canvas: objects created and deleted, pixel store, base texture
    app,          \* state of App: previewHandle, captureError, and the handle a caller may still hold
    media,        \* useMediaStream: mediaState (the status and videoStream props), requests in flight
    video,        \* the <video> element and the refs of the videoStream effect
    tick,         \* what the most recent render tick did, and the timestamp it received
    gif,          \* the closure of the one captureGif call the model follows
    still,        \* the one captureImage call the model follows
    ramp,         \* useRampController: the points of one ramp and the selected id
    lut           \* calls of generateRampTextureData on one caller's array

vars == <<now, rafQueue, running, canvas, comp, gpu, app, media, video, tick, gif, still,
          ramp, lut>>

(***************************************************************************)
(* Bounds of the model.                                                     *)
(***************************************************************************)
\* component instances mounted one after the other
MaxInstances == 2
\* MediaStream objects getUserMedia hands out
MaxStreams == 2
\* requestStream calls whose getUserMedia has not settled yet
MaxRequests == 2

(***************************************************************************)
(* JavaScript numbers.                                                      *)
(***************************************************************************)
Num(v) == [k |-> "fin", v |-> v]
NaN == [k |-> "nan", v |-> 0]
PosInf == [k |-> "inf", v |-> 1]
NegInf == [k |-> "inf", v |-> -1]

IsFinite(a) == a.k = "fin"

\* a < b for two numbers, false when either is NaN
NumLess(a, b) ==
    CASE a.k = "nan" \/ b.k = "nan" -> FALSE
      [] a.k = "fin" /\ b.k = "fin" -> a.v < b.v
      [] a.k = "inf" /\ b.k = "fin" -> a.v < 0
      [] a.k = "fin" /\ b.k = "inf" -> b.v > 0
      [] OTHER -> a.v < b.v

\* Math.max and Math.min: NaN if either argument is NaN
MathMax(a, b) ==
    IF a.k = "nan" \/ b.k = "nan" THEN NaN
    ELSE IF NumLess(a, b) THEN b ELSE a

MathMin(a, b) ==
    IF a.k = "nan" \/ b.k = "nan" THEN NaN
    ELSE IF NumLess(b, a) THEN b ELSE a

\* Math.round of a value held in units of 1/unit: floor(x + 1/2)
MathRound(a, unit) ==
    IF a.k = "fin" THEN Num((2 * a.v + unit) \div (2 * unit)) ELSE a

IntMax(a, b) == IF a >= b THEN a ELSE b

(***************************************************************************)
(* captureGif: sanitized inputs and the parameters derived from them.       *)
(* duration in ms, fps in tenths on input and in whole frames once rounded, *)
(* scale in hundredths.                                                     *)
(***************************************************************************)
\* Math.max(0.5, duration)
sanitizedDuration(duration) == MathMax(Num(500), duration)

\* variant for sensitivity runs: the upper clamp at 120
sanitizedFpsWide(fps) == MathMin(Num(120), MathMax(Num(1), MathRound(fps, 10)))

\* variant for sensitivity runs: Math.floor in place of Math.round
sanitizedFpsFloor(fps) ==
    MathMin(Num(60), MathMax(Num(1), IF IsFinite(fps) THEN Num(fps.v \div 10) ELSE fps))

\* Math.min(60, Math.max(1, Math.round(fps)))
sanitizedFps(fps) == MathMin(Num(60), MathMax(Num(1), MathRound(fps, 10)))

\* Math.min(1, Math.max(0.1, Number.isFinite(scale) ? scale : 1))
sanitizedScale(scale) ==
    MathMin(Num(100), MathMax(Num(10), IF IsFinite(scale) THEN scale ELSE Num(100)))

\* Math.max(1, Math.round(sanitizedDuration * sanitizedFps)), duration in ms
frameCount(durationMs, fps) == IntMax(1, (durationMs * fps + 500) \div 1000)

\* Math.max(0, Math.round(frameIntervalMs)) with frameIntervalMs = 1000 / fps
delayMs(fps) == IntMax(0, (2 * 1000 + fps) \div (2 * fps))

\* Math.max(1, Math.round(width * sanitizedScale)), scale in hundredths
targetSize(size, scalePct) == IntMax(1, (2 * size * scalePct + 100) \div (2 * 100))

\* the constants the closure of one captureGif call is built from
DerivedParams(duration, fps, scale, width, height) ==
    LET d == sanitizedDuration(duration).v
        f == sanitizedFps(fps).v
        s == sanitizedScale(scale).v
    IN  [ sanitizedDuration |-> d,
          sanitizedFps      |-> f,
          sanitizedScale    |-> s,
          frameIntervalMs   |-> [num |-> 1000, den |-> f],
          frameCount        |-> frameCount(d, f),
          delayMs           |-> delayMs(f),
          width             |-> width,
          height            |-> height,
          targetWidth       |-> targetSize(width, s),
          targetHeight      |-> targetSize(height, s) ]

NoParams == DerivedParams(Num(500), Num(10), Num(100), 0, 0)
NoInput == [duration |-> Num(0), fps |-> Num(0), scale |-> Num(0)]
NoFrame ==
    [ readWidth |-> 0, readHeight |-> 0, outWidth |-> 0, outHeight |-> 0, delay |-> 0,
      resized |-> FALSE ]

\* no captureGif call has been made
NoGif ==
    [ st |-> "none", error |-> "", input |-> NoInput, handleNull |-> FALSE,
      p |-> NoParams, frameIndex |-> 0, captured |-> 0, startTime |-> 0,
      nextCapture |-> 0, lastFrame |-> NoFrame, hasRead |-> FALSE,
      startCanvas |-> [w |-> 0, h |-> 0] ]

\* variants for sensitivity runs: a loop that ignores its count, or its clock
CountNeverReached(captured, count) == FALSE
TimeNeverUp(t, startTime, p) == FALSE

\* the step's first test and its last: captured >= frameCount
CountReached(captured, count) == captured >= count

\* now >= nextCapture; nextCapture is held multiplied by sanitizedFps
CaptureDue(t, nextCapture, fps) == t * fps >= nextCapture

\* variant for sensitivity runs: the cutoff at half the duration
TimeUpHalfway(t, startTime, p) == 2 * (t - startTime) >= p.sanitizedDuration

\* now - startTime >= sanitizedDuration * 1000 + frameIntervalMs
TimeUp(t, startTime, p) ==
    (t - startTime) * p.sanitizedFps >= p.sanitizedDuration * p.sanitizedFps + 1000

\* variant for sensitivity runs: the size read from the canvas at each capture
ReadSizeLive(g, cv) == [w |-> cv.width, h |-> cv.height]

\* width and height given to gl.readPixels, and the size of the frame written
ReadSize(g, cv) == [w |-> g.p.width, h |-> g.p.height]
FrameSize(g, cv) == [w |-> g.p.targetWidth, h |-> g.p.targetHeight]

\* captureFrame, when nothing in it throws
captureFrame(g, cv) ==
    [ g EXCEPT !.lastFrame = [ readWidth  |-> ReadSize(g, cv).w,
                               readHeight |-> ReadSize(g, cv).h,
                               outWidth   |-> FrameSize(g, cv).w,
                               outHeight  |-> FrameSize(g, cv).h,
                               delay      |-> g.p.delayMs,
                               resized    |-> <<cv.width, cv.height>>
                                                # <<g.startCanvas.w, g.startCanvas.h>> ],
                 !.hasRead = TRUE,
                 !.frameIndex = g.frameIndex + 1 ]

(***************************************************************************)
(* The GPU objects of one instance and the ways initialization can end.     *)
(***************************************************************************)
ObjectKinds ==
    << "vertexShader", "fragmentShader", "program", "positionBuffer",
       "baseTexture", "rampTextureX", "rampTextureY" >>

\* how the init effect ends: "ok", or the call that failed
InitOutcomes ==
    { "ok", "noContext", "vertexShaderNull", "vertexCompile", "fragmentShaderNull",
      "fragmentCompile", "programNull", "link", "bufferNull", "baseTextureNull",
      "rampTextureXNull", "rampTextureYNull" }

\* the number of objects that exist, undeleted, when the init effect ends so
CreatedBefore(outcome) ==
    CASE outcome \in {"noContext", "vertexShaderNull", "vertexCompile"} -> 0
      [] outcome \in {"fragmentShaderNull", "fragmentCompile"} -> 1
      [] outcome \in {"programNull", "link"} -> 2
      [] outcome = "bufferNull" -> 3
      [] outcome = "baseTextureNull" -> 4
      [] outcome = "rampTextureXNull" -> 5
      [] outcome = "rampTextureYNull" -> 6
      [] OTHER -> 7

\* objects createShader and createProgram delete themselves before throwing
DeletedOnFailure(outcome) ==
    CASE outcome = "vertexCompile" -> {"vertexShader"}
      [] outcome = "fragmentCompile" -> {"fragmentShader"}
      [] outcome = "link" -> {"program"}
      [] OTHER -> {}

\* the message given to setGlError
ErrorMessage(outcome) ==
    CASE outcome = "noContext" -> "WebGL2 not supported by this browser or device."
      [] outcome \in {"vertexShaderNull", "fragmentShaderNull"} -> "Failed to create shader"
      [] outcome \in {"vertexCompile", "fragmentCompile"} -> "shader info log"
      [] outcome = "programNull" -> "Failed to create program"
      [] outcome = "link" -> "program info log"
      [] outcome = "bufferNull" -> "Unable to allocate buffer"
      [] outcome = "baseTextureNull" -> "Failed to create base texture"
      [] outcome \in {"rampTextureXNull", "rampTextureYNull"} -> "Failed to create ramp texture"
      [] OTHER -> "null"

NoError == "null"

AllObjects == { ObjectKinds[k] : k \in 1..Len(ObjectKinds) }

\* the context a new canvas gives: nothing created, default pixel store
FreshGl ==
    [ created |-> {}, alive |-> {}, deleted |-> [o \in AllObjects |-> 0],
      flipY |-> FALSE, baseImage |-> "none",
      program |-> "none", activeUnit |-> 0, units |-> [u \in 0..2 |-> "none"],
      rampPoints |-> << >>, stale |-> {}, unread |-> FALSE ]

\* a GL call that takes the objects objs as arguments: those of them already
\* deleted are recorded in stale
NameObjects(g, objs) == [ g EXCEPT !.stale = @ \cup (objs \ g.alive) ]

\* the objects the init effect created and left undeleted
LeftAlive(outcome) ==
    { ObjectKinds[k] : k \in 1..CreatedBefore(outcome) }

(***************************************************************************)
(* The videoStream effect and the status effect.                            *)
(***************************************************************************)
\* useVideoRef.current = false; videoReadyRef.current = false; setVideoReady(false)
FlagsOff(v) ==
    [ v EXCEPT !.useVideoRef = FALSE, !.videoReadyRef = FALSE, !.videoReady = FALSE ]

\* useVideoRef.current = true; videoReadyRef.current = true; setVideoReady(true)
handleLoaded(v) ==
    [ v EXCEPT !.useVideoRef = TRUE, !.videoReadyRef = TRUE, !.videoReady = TRUE ]

\* variant for sensitivity runs: an error handler that leaves the flags alone
handleErrorNoop(v) == v

\* useVideoRef.current = false; videoReadyRef.current = false; setVideoReady(false)
handleError(v) == FlagsOff(v)

\* assigning video.srcObject starts the element's load algorithm afresh
SetSrcObject(v, stream) ==
    [ v EXCEPT !.srcObject = stream, !.readyState = 0,
               !.loadedFired = FALSE, !.loadedQueued = FALSE, !.loadedRun = FALSE ]

\* the branch of the effect for videoStream = null, on the video refs
NoStreamBranch(v) ==
    LET off == FlagsOff(v)
    IN  IF v.element THEN SetSrcObject(off, 0) ELSE off

\* the same branch on the context: the procedural image is uploaded again
ReuploadBase(g) ==
    NameObjects([ g EXCEPT !.flipY = FALSE, !.activeUnit = 0, !.units[0] = "baseTexture",
                           !.baseImage = "procedural" ],
                {"baseTexture"})

\* the branch of the effect for a stream: listeners attached, play() attempted
StreamBranch(v, stream) ==
    LET el    == [ v EXCEPT !.element = TRUE ]
        reset == [ el EXCEPT !.videoReadyRef = FALSE, !.videoReady = FALSE ]
        src   == SetSrcObject(reset, stream)
    IN  [ src EXCEPT !.listening = TRUE, !.playPending = v.playPending \cup {stream} ]

\* cleanup of the previous run of the effect, then its body
videoStreamEffect(v, hasState, stream) ==
    LET cleaned == [ v EXCEPT !.listening = FALSE ]
    IN  IF ~hasState THEN cleaned
        ELSE IF stream = 0 THEN NoStreamBranch(cleaned)
        ELSE StreamBranch(cleaned, stream)

videoStreamEffectGl(g, hasState, stream) ==
    IF hasState /\ stream = 0 THEN ReuploadBase(g) ELSE g

\* if (status !== "active") { ... }
statusEffect(v, status) == IF status # "active" THEN FlagsOff(v) ELSE v

\* the video refs of a newly constructed component instance
FreshVideo ==
    [ element |-> FALSE, srcObject |-> 0, readyState |-> 0, loadedFired |-> FALSE,
      loadedQueued |-> FALSE, loadedRun |-> FALSE, listening |-> FALSE, playPending |-> {},
      useVideoRef |-> FALSE, videoReadyRef |-> FALSE, videoReady |-> FALSE,
      lost |-> FALSE ]

(***************************************************************************)
(* generateRampTextureData.  The coordinates of a control point are held    *)
(* in quarters (x = 2 is 0.5 and 4 is 1.0), so that points left of 0 and    *)
(* right of 1 exist; the sample at index i stands for t = i / (size - 1).   *)
(* ratio and value are kept as exact fractions over a common denominator.   *)
(***************************************************************************)
\* const RAMP_RESOLUTION
RAMP_RESOLUTION == 256

\* longest collection handed to the sampler
MaxPoints == 3

IntMin(a, b) == IF a <= b THEN a ELSE b

\* const clamp = (value, min, max) => Math.min(Math.max(value, min), max)
clamp(value, min, max) == IntMin(IntMax(value, min), max)

\* ({ x, y }) => ({ x: clamp(x), y: clamp(y) })
ClampPoint(p) == [ x |-> clamp(p.x, 0, 4), y |-> clamp(p.y, 0, 4) ]

\* variants for sensitivity runs
EmptyRampNone(size) == << >>
EmptyRampBlack(size) == [ i \in 1..size |-> 0 ]
SortByXNone(s) == s
AdvanceStuck(normalized, segment, index, size) == segment
MathFloor255(n, d) == (255 * n) \div d
spreadMapInPlace(h) ==
    LET mapped == [ i \in 1..Len(h.input) |-> ClampPoint(h.input[i]) ]
    IN  [ h EXCEPT !.input = mapped, !.sorted = mapped ]

\* new Uint8Array(Array.from({ length: size }, () => 127))
EmptyRamp(size) == [ i \in 1..size |-> 127 ]

\* one step of the stable sort: p goes behind every element whose x is not larger
InsertByX(sorted, p) ==
    LET k == Cardinality({ i \in 1..Len(sorted) : sorted[i].x <= p.x })
    IN  SubSeq(sorted, 1, k) \o << p >> \o SubSeq(sorted, k + 1, Len(sorted))

RECURSIVE SortFrom(_, _)
SortFrom(s, n) == IF n = 0 THEN << >> ELSE InsertByX(SortFrom(s, n - 1), s[n])

\* .sort((a, b) => a.x - b.x): ascending x, equal x in the order they came
SortByX(s) == SortFrom(s, Len(s))

\* normalized: a point at x = 0 in front and one at x = 1 behind, where missing
Normalize(sorted) ==
    LET first == sorted[1]
        last == sorted[Len(sorted)]
        front == IF first.x > 0 THEN << [ x |-> 0, y |-> first.y ] >> \o sorted ELSE sorted
    IN  IF last.x < 4 THEN Append(front, [ x |-> 4, y |-> last.y ]) ELSE front

\* the arrays of one call: the caller's, and the two the call allocates
NewArrays(points) == [ input |-> points, sorted |-> << >>, normalized |-> << >> ]

\* [...points].map(clampPoint): the clamped points go to an array of their own
spreadMap(h) ==
    [ h EXCEPT !.sorted = [ i \in 1..Len(h.input) |-> ClampPoint(h.input[i]) ] ]

\* .sort() sorts the mapped array in place; normalized = [...sorted] is grown
sortAndExtend(h) ==
    LET sorted == SortByX(h.sorted)
    IN  [ h EXCEPT !.sorted = sorted, !.normalized = Normalize(sorted) ]

\* while (segment < normalized.length - 2 && t > normalized[segment + 1].x) segment += 1
RECURSIVE Advance(_, _, _, _)
Advance(normalized, segment, index, size) ==
    IF /\ segment < Len(normalized) - 2
       /\ 4 * index > (size - 1) * normalized[segment + 2].x
    THEN Advance(normalized, segment + 1, index, size)
    ELSE segment

\* Math.round(n / d * 255), for n / d >= 0
MathRound255(n, d) == (2 * 255 * n + d) \div (2 * d)

\* a store into a Uint8Array
ToUint8(v) == v % 256

\* the body of the sampling loop behind the while
SampleValue(normalized, segment, index, size) ==
    LET left == normalized[segment + 1]
        right == IF segment + 2 <= Len(normalized) THEN normalized[segment + 2] ELSE left
        span == IF right.x - left.x = 0 THEN 4 ELSE right.x - left.x
        den == (size - 1) * span
        ratio == clamp(4 * index - (size - 1) * left.x, 0, den)
        value == clamp(left.y * den + (right.y - left.y) * ratio, 0, 4 * den)
    IN  ToUint8(MathRound255(value, 4 * den))

\* for (let index = 0; index < size; index += 1) over the indices lo..hi, entered
\* with segment as the iteration before left it; the range is run in two halves
RECURSIVE FillSamples(_, _, _, _, _)
FillSamples(normalized, lo, hi, segment, size) ==
    IF lo = hi
    THEN LET seg == Advance(normalized, segment, lo, size)
         IN  [ samples |-> << SampleValue(normalized, seg, lo, size) >>, segment |-> seg ]
    ELSE LET mid == (lo + hi) \div 2
             head == FillSamples(normalized, lo, mid, segment, size)
             tail == FillSamples(normalized, mid + 1, hi, head.segment, size)
         IN  [ samples |-> head.samples \o tail.samples, segment |-> tail.segment ]

\* the call: the samples it returns and the arrays as it leaves them
generateRampTextureData(points, size) ==
    IF Len(points) = 0
    THEN [ arrays |-> NewArrays(points), samples |-> EmptyRamp(size) ]
    ELSE LET h == sortAndExtend(spreadMap(NewArrays(points)))
         IN  [ arrays |-> h, samples |-> FillSamples(h.normalized, 0, size - 1, 0, size).samples ]

\* control points the sampler is tried on: the corners, interior points,
\* points sharing an x, and points outside the unit square
SamplerPoints ==
    { [ x |-> 0, y |-> 4 ], [ x |-> 4, y |-> 0 ], [ x |-> 2, y |-> 4 ],
      [ x |-> 0, y |-> 2 ], [ x |-> -1, y |-> 5 ], [ x |-> 5, y |-> -1 ] }

SamplerInputs == UNION { [ 1..n -> SamplerPoints ] : n \in 0..MaxPoints }

\* the same points with two of them changing places; such exchanges, one
\* after the other, produce every order of the points
Reorderings(points) ==
    { [ points EXCEPT ![i] = points[j], ![j] = points[i] ] :
        i \in 1..Len(points), j \in 1..Len(points) }

\* a call: the collection it was given, the caller's array as the call left
\* it, and the samples it returned
NoCall == [ made |-> FALSE, input |-> << >>, after |-> << >>, samples |-> << >> ]
NoCalls(points) == [ points |-> points, first |-> NoCall, second |-> NoCall ]

(***************************************************************************)
(* useRampController.  x and y of a ramp point are held in hundredths, so   *)
(* the 0.01 that updatePoint keeps between neighbours is 1.                 *)
(***************************************************************************)
\* ids generateId hands out
MaxIds == 4

\* presets: the shortest of the record, x and y in hundredths
presets == [ linear |-> << [ x |-> 0, y |-> 100 ], [ x |-> 100, y |-> 0 ] >> ]

PresetKeys == DOMAIN presets

\* createPoint, with the id generateId returned; opts.locked absent reads as false
createPoint(id, x, y, locked) == [ id |-> id, x |-> x, y |-> y, locked |-> locked ]

\* buildPreset: first and last point locked; generateId counts on from counter
buildPreset(config, counter) ==
    [ i \in 1..Len(config) |->
        createPoint(counter + i, config[i].x, config[i].y, i = 1 \/ i = Len(config)) ]

\* prev.findIndex((point) => point.id === id), 0 for -1
findIndex(points, id) ==
    IF \E i \in 1..Len(points) : points[i].id = id
    THEN CHOOSE i \in 1..Len(points) :
            points[i].id = id /\ \A j \in 1..(i - 1) : points[j].id # id
    ELSE 0

\* nextPoints.find((point) => !point.locked)?.id ?? nextPoints[0]?.id ?? null, 0 for null
FirstSelectable(points) ==
    IF \E i \in 1..Len(points) : ~points[i].locked
    THEN points[CHOOSE i \in 1..Len(points) :
                   ~points[i].locked /\ \A j \in 1..(i - 1) : points[j].locked].id
    ELSE IF Len(points) > 0 THEN points[1].id ELSE 0

\* variant for sensitivity runs
NextXFree(point, boundedX) == clamp(boundedX, 0, 100)

\* const nextX = clamp(point.locked ? point.x : boundedX, 0, 1)
NextX(point, boundedX) == clamp(IF point.locked THEN point.x ELSE boundedX, 0, 100)

\* a Partial<RampPoint> as the editor passes it: x, y or both
OnlyX(x) == [ hasX |-> TRUE, x |-> x, hasY |-> FALSE, y |-> 0 ]
OnlyY(y) == [ hasX |-> FALSE, x |-> 0, hasY |-> TRUE, y |-> y ]
BothXY(x, y) == [ hasX |-> TRUE, x |-> x, hasY |-> TRUE, y |-> y ]

\* the points updatePoint(id, next) leaves
updatePoint(prev, id, next) ==
    LET index == findIndex(prev, id)
    IN  IF index = 0
        THEN prev
        ELSE LET point == prev[index]
                 proposedX == IF next.hasX THEN next.x ELSE point.x
                 minBound == IF index > 1 THEN prev[index - 1].x + 1 ELSE 0
                 maxBound == IF index < Len(prev) THEN prev[index + 1].x - 1 ELSE 100
                 safeMin == IntMin(minBound, maxBound)
                 safeMax == IntMax(minBound, maxBound)
                 boundedX == IF safeMin > safeMax
                             THEN (safeMin + safeMax) \div 2
                             ELSE clamp(proposedX, safeMin, safeMax)
                 nextY == clamp(IF next.hasY THEN next.y ELSE point.y, 0, 100)
             IN  [ prev EXCEPT ![index] = [ point EXCEPT !.x = NextX(point, boundedX),
                                                        !.y = nextY ] ]

\* the points addPoint(x, y) leaves, newPoint carrying the new id
addPoint(prev, newPoint) ==
    LET sorted == SortByX(Append(prev, newPoint))
        n == Len(sorted)
        firstSet == IF sorted[1].locked THEN [ sorted EXCEPT ![1].x = 0 ] ELSE sorted
    IN  IF n > 1 /\ firstSet[n].locked THEN [ firstSet EXCEPT ![n].x = 100 ] ELSE firstSet

\* prev.filter((point) => point.id !== id)
WithoutId(points, id) ==
    LET keep == { i \in 1..Len(points) : points[i].id # id }
        nth(k) == CHOOSE i \in keep : Cardinality({ j \in keep : j <= i }) = k
    IN  [ k \in 1..Cardinality(keep) |-> points[nth(k)] ]

\* the points removePoint(id) leaves
removePoint(prev, id) ==
    LET targetIndex == findIndex(prev, id)
    IN  IF Len(prev) <= 2 \/ targetIndex = 0
        THEN prev
        ELSE IF prev[targetIndex].locked THEN prev ELSE WithoutId(prev, id)

\* the selection removePoint(id) leaves
removeSelection(prev, selectedId, id) ==
    LET nextPoints == removePoint(prev, id)
        targetIndex == findIndex(prev, id)
    IN  IF nextPoints = prev \/ selectedId # id
        THEN selectedId
        ELSE nextPoints[IntMin(targetIndex, Len(nextPoints))].id

\* useRampController(initialPreset) on mount
useRampController(key) ==
    LET initialPoints == buildPreset(presets[key], 0)
    IN  [ points |-> initialPoints, selectedId |-> FirstSelectable(initialPoints),
          counter |-> Len(initialPoints) ]

\* values the editor proposes: a drag or a double-click inside the box, a
\* keystroke or a typed number past either edge
UpdateInputs == { OnlyX(-1), OnlyX(101), OnlyY(101), BothXY(50, 50) }
AddInputs == { << 2, 50 >>, << 98, 50 >> }

(***************************************************************************)
(* Initial state: App rendered once, DisplacementPreview not yet mounted.   *)
(***************************************************************************)
NoTick ==
    [ branch |-> "none", flipY |-> FALSE, image |-> "none", uTime |-> 0,
      afterLoss |-> FALSE, loadedRun |-> FALSE, readyState |-> 0, stream |-> 0,
      at |-> 0 ]

NoStill == [ st |-> "none", error |-> "", handleNull |-> FALSE, hasRead |-> FALSE, bytes |-> 0 ]

FreshComp ==
    [ phase |-> "unmounted", inst |-> 0, glState |-> FALSE, glError |-> NoError,
      isReady |-> FALSE, isReadyQueued |-> FALSE, onReadyCleanup |-> FALSE,
      hasCleanup |-> FALSE, resizeObserver |-> FALSE, animationRef |-> FALSE,
      initRuns |-> 0, loopStart |-> 0 ]

\* const defaultState: MediaState
defaultState == [ status |-> "inactive", stream |-> 0 ]

InitPreview ==
    /\ now = 0
    /\ rafQueue = << >>
    /\ running = << >>
    /\ canvas = [ attached |-> FALSE, width |-> 300, height |-> 150 ]
    /\ comp = FreshComp
    /\ gpu = FreshGl
    /\ app = [ previewHandle |-> 0, held |-> {}, captureError |-> "" ]
    /\ media = [ mediaState |-> defaultState, requests |-> 0, streams |-> 0 ]
    /\ video = FreshVideo
    /\ tick = NoTick
    /\ gif = NoGif
    /\ still = NoStill

Init ==
    /\ InitPreview
    /\ ramp = useRampController("linear")
    /\ lut = NoCalls(<< >>)

\* nothing runs between the callbacks of one frame
Idle == running = << >>

(***************************************************************************)
(* resize(), called by the init effect and by the ResizeObserver.           *)
(* clientWidth and clientHeight come as a pair; devicePixelRatio in halves. *)
(***************************************************************************)
ContainerSizes == { <<0, 0>>, <<3, 4>> }
PixelRatios == { 0, 3 }

\* Math.max(1, Math.floor(client * (window.devicePixelRatio || 1)))
PixelSize(client, ratio2) ==
    IntMax(1, (client * (IF ratio2 = 0 THEN 2 ELSE ratio2)) \div 2)

resize(cv, size, ratio2) ==
    [ cv EXCEPT !.width = PixelSize(size[1], ratio2),
                !.height = PixelSize(size[2], ratio2) ]

Resize ==
    /\ Idle
    /\ comp.resizeObserver
    /\ \E size \in ContainerSizes, ratio2 \in PixelRatios :
          canvas' = resize(canvas, size, ratio2)
    /\ UNCHANGED <<now, rafQueue, running, comp, gpu, app, media, video, tick, gif, still, ramp, lut>>

(***************************************************************************)
(* Mounting: the canvas is attached and the effects run in source order:    *)
(* the init effect, the videoStream effect, the status effect, the onReady  *)
(* effect (isReady is still false in this render).                          *)
(***************************************************************************)
\* the refs and state the init effect leaves behind
InitEffectComp(c, outcome) ==
    [ c EXCEPT !.glState = (outcome = "ok"),
               !.glError = ErrorMessage(outcome),
               !.isReadyQueued = (outcome = "ok"),
               !.hasCleanup = (outcome # "noContext"),
               !.resizeObserver = (outcome = "ok"),
               !.animationRef = (outcome = "ok"),
               !.initRuns = c.initRuns + 1 ]

\* variant for sensitivity runs: the render loop started whatever the outcome
InitEffectRafAlways(q, outcome) == Append(q, "render")

\* the callbacks the init effect registers with requestAnimationFrame
InitEffectRaf(q, outcome) == IF outcome = "ok" THEN Append(q, "render") ELSE q

\* the context of the instance's canvas after the init effect
InitEffectGl(outcome) ==
    [ FreshGl EXCEPT
            !.created = LeftAlive(outcome) \cup DeletedOnFailure(outcome),
            !.alive = LeftAlive(outcome),
            !.deleted = [o \in AllObjects |->
                            IF o \in DeletedOnFailure(outcome) THEN 1 ELSE 0],
            !.baseImage = IF CreatedBefore(outcome) >= 5 THEN "procedural" ELSE "none",
            !.program = IF CreatedBefore(outcome) >= 3 THEN "program" ELSE "none",
            !.activeUnit = IntMax(0, IntMin(2, CreatedBefore(outcome) - 5)),
            !.units = [u \in 0..2 |->
                          IF CreatedBefore(outcome) >= 5 + u THEN ObjectKinds[5 + u]
                          ELSE "none"],
            !.rampPoints = IF CreatedBefore(outcome) >= 6 THEN ramp.points ELSE << >> ]

\* the effect on [horizontalSamples, verticalSamples]: both ramp textures re-uploaded
rampUpdateEffect(g, hasState, points) ==
    IF hasState
    THEN NameObjects([ g EXCEPT !.program = "program", !.activeUnit = 2,
                                !.units[1] = "rampTextureX", !.units[2] = "rampTextureY",
                                !.rampPoints = points ],
                     {"program", "rampTextureX", "rampTextureY"})
    ELSE g

\* the first run of the onReady effect: isReady is false, onReady(null)
OnReadyFirst(a) == [ a EXCEPT !.previewHandle = 0 ]

MountInstance(outcome) ==
    /\ Idle
    /\ LET i  == comp.inst + 1
           ok == outcome = "ok"
           c1 == InitEffectComp([FreshComp EXCEPT !.phase = "mounted", !.inst = i,
                                                 !.loopStart = now], outcome)
           g1 == InitEffectGl(outcome)
           st == media.mediaState
       IN  /\ comp' = c1
           /\ rafQueue' = InitEffectRaf(rafQueue, outcome)
           /\ gpu' = videoStreamEffectGl(rampUpdateEffect(g1, c1.glState, ramp.points),
                                         c1.glState, st.stream)
           /\ video' = statusEffect(videoStreamEffect(FreshVideo, c1.glState, st.stream), st.status)
           /\ IF ok
              THEN \E size \in ContainerSizes, ratio2 \in PixelRatios :
                      canvas' = resize([attached |-> TRUE, width |-> 300, height |-> 150],
                                       size, ratio2)
              ELSE canvas' = [attached |-> TRUE, width |-> 300, height |-> 150]
           /\ app' = OnReadyFirst(app)
           /\ tick' = NoTick
    /\ UNCHANGED <<now, running, media, gif, still, ramp, lut>>

\* the first mount
Mount(outcome) ==
    /\ comp.phase = "unmounted"
    /\ MountInstance(outcome)

\* a new instance is mounted after the previous one was unmounted
Remount(outcome) ==
    /\ comp.phase = "disposed"
    /\ comp.inst < MaxInstances
    /\ MountInstance(outcome)

\* the render with isReady = true: the onReady effect hands out the handle
CommitReady ==
    /\ Idle
    /\ comp.phase = "mounted"
    /\ comp.isReadyQueued
    /\ comp' = [ comp EXCEPT !.isReady = TRUE, !.isReadyQueued = FALSE,
                             !.onReadyCleanup = TRUE ]
    /\ app' = [ app EXCEPT !.previewHandle = comp.inst, !.held = app.held \cup {comp.inst} ]
    /\ UNCHANGED <<now, rafQueue, running, canvas, gpu, media, video, tick, gif, still, ramp, lut>>

(***************************************************************************)
(* Unmounting: the canvas ref is cleared and the cleanups run in order.     *)
(***************************************************************************)
\* variant for sensitivity runs: a cleanup that cancels nothing
cancelAnimationFrameNone(q, c) == q

\* window.cancelAnimationFrame(animationRef.current)
cancelAnimationFrame(q, c) ==
    IF c.animationRef THEN SelectSeq(q, LAMBDA cb : cb # "render") ELSE q

\* variant for sensitivity runs: a cleanup that forgets the two shaders
CleanupDeletesNoShaders(c) ==
    IF c.glState THEN AllObjects \ {"vertexShader", "fragmentShader"} ELSE {}

\* the gl.delete* calls of the cleanup
CleanupDeletes(c) ==
    IF c.glState THEN AllObjects ELSE {}

InitCleanupGl(g, c) ==
    [ g EXCEPT !.alive = g.alive \ CleanupDeletes(c),
               !.deleted = [o \in AllObjects |->
                               IF o \in CleanupDeletes(c) THEN g.deleted[o] + 1
                               ELSE g.deleted[o]] ]

InitCleanupComp(c) ==
    [ c EXCEPT !.glState = FALSE, !.resizeObserver = FALSE, !.isReadyQueued = FALSE ]

\* variant for sensitivity runs: a cleanup that does not call onReady(null)
OnReadyCleanupNoop(a, c) == a

\* cleanup of the onReady effect: onReady(null), if the effect returned one
OnReadyCleanup(a, c) == IF c.onReadyCleanup THEN [ a EXCEPT !.previewHandle = 0 ] ELSE a

Unmount ==
    /\ Idle
    /\ comp.phase = "mounted"
    /\ canvas' = [ canvas EXCEPT !.attached = FALSE ]
    /\ rafQueue' = IF comp.hasCleanup THEN cancelAnimationFrame(rafQueue, comp) ELSE rafQueue
    /\ gpu' = IF comp.hasCleanup THEN InitCleanupGl(gpu, comp) ELSE gpu
    /\ comp' = [ (IF comp.hasCleanup THEN InitCleanupComp(comp) ELSE comp)
                   EXCEPT !.phase = "disposed", !.onReadyCleanup = FALSE ]
    /\ video' = [ video EXCEPT !.listening = FALSE ]
    /\ app' = OnReadyCleanup(app, comp)
    /\ tick' = NoTick
    /\ UNCHANGED <<now, running, media, gif, still, ramp, lut>>

(***************************************************************************)
(* useMediaStream.  Every setMediaState re-renders DisplacementPreview      *)
(* with the new props; the effects whose dependency changed then run.       *)
(***************************************************************************)
\* handleLoaded has run for the stream the element holds
SourceReady(v) == v.srcObject # 0 /\ v.loadedRun

\* the effects of one render with new props, on the video refs
PropsEffects(v, c, old, new) ==
    LET v1 == IF new.stream # old.stream
              THEN videoStreamEffect(v, c.glState, new.stream) ELSE v
        v2 == IF new.status # old.status THEN statusEffect(v1, new.status) ELSE v1
        gone == \/ (old.stream # 0 /\ new.stream = 0)
                \/ (old.status = "active" /\ new.status # "active")
    IN  [ v2 EXCEPT !.lost = v.lost \/ (gone /\ SourceReady(v)) ]

PropsEffectsGl(g, c, old, new) ==
    IF new.stream # old.stream THEN videoStreamEffectGl(g, c.glState, new.stream) ELSE g

\* setMediaState(new) and the render it causes
SetMediaState(new) ==
    /\ IF comp.phase = "mounted"
       THEN /\ video' = PropsEffects(video, comp, media.mediaState, new)
            /\ gpu' = PropsEffectsGl(gpu, comp, media.mediaState, new)
       ELSE UNCHANGED <<video, gpu>>
    /\ UNCHANGED <<now, rafQueue, running, canvas, comp, app, tick, gif, still, ramp, lut>>

\* requestStream up to the await: status "pending", no stream
RequestStream ==
    /\ Idle
    /\ media.requests < MaxRequests
    /\ media' = [ media EXCEPT !.mediaState = [status |-> "pending", stream |-> 0],
                               !.requests = media.requests + 1 ]
    /\ SetMediaState([status |-> "pending", stream |-> 0])

\* getUserMedia resolves with a new MediaStream
GetUserMediaResolved ==
    /\ Idle
    /\ media.requests > 0
    /\ media.streams < MaxStreams
    /\ LET new == [status |-> "active", stream |-> media.streams + 1]
       IN  /\ media' = [ mediaState |-> new, requests |-> media.requests - 1,
                         streams |-> media.streams + 1 ]
           /\ SetMediaState(new)

\* getUserMedia rejects
GetUserMediaRejected ==
    /\ Idle
    /\ media.requests > 0
    /\ media' = [ media EXCEPT !.mediaState = [status |-> "error", stream |-> 0],
                               !.requests = media.requests - 1 ]
    /\ SetMediaState([status |-> "error", stream |-> 0])

StopStream ==
    /\ Idle
    /\ media' = [ media EXCEPT !.mediaState = defaultState ]
    /\ SetMediaState(defaultState)

\* a track of the current stream ends: handleTrackEnded (prev.stream === stream)
TrackEnded ==
    /\ Idle
    /\ media.mediaState.stream # 0
    /\ media' = [ media EXCEPT !.mediaState = defaultState ]
    /\ SetMediaState(defaultState)

(***************************************************************************)
(* The <video> element: its readyState moves, it fires loadeddata once per  *)
(* load, it may fire error, and the promise of each play() call settles.    *)
(***************************************************************************)
\* HAVE_METADATA, HAVE_CURRENT_DATA, HAVE_ENOUGH_DATA
ReadyStates == { 1, 2, 4 }

ReadyStateChange(r) ==
    /\ Idle
    /\ comp.phase = "mounted"
    /\ video.srcObject # 0
    /\ r # video.readyState
    /\ video' = [ video EXCEPT !.readyState = r,
                               !.loadedFired = video.loadedFired \/ r >= 2,
                               !.loadedQueued = video.loadedQueued \/ (r >= 2 /\ ~video.loadedFired) ]
    /\ UNCHANGED <<now, rafQueue, running, canvas, comp, gpu, app, media, tick, gif, still, ramp, lut>>

\* the queued loadeddata event is dispatched
LoadedData ==
    /\ Idle
    /\ video.loadedQueued
    /\ video' = IF video.listening
                THEN [ handleLoaded(video) EXCEPT !.loadedQueued = FALSE, !.loadedRun = TRUE,
                                                  !.lost = FALSE ]
                ELSE [ video EXCEPT !.loadedQueued = FALSE ]
    /\ UNCHANGED <<now, rafQueue, running, canvas, comp, gpu, app, media, tick, gif, still, ramp, lut>>

\* the element fires error
VideoError ==
    /\ Idle
    /\ comp.phase = "mounted"
    /\ video.srcObject # 0
    /\ video.listening
    /\ video' = [ handleError(video) EXCEPT !.lost = video.lost \/ SourceReady(video) ]
    /\ UNCHANGED <<now, rafQueue, running, canvas, comp, gpu, app, media, tick, gif, still, ramp, lut>>

\* the promise of the play() call made for stream s resolves
PlayResolved(s) ==
    /\ Idle
    /\ s \in video.playPending
    /\ video' = [ video EXCEPT !.playPending = video.playPending \ {s} ]
    /\ UNCHANGED <<now, rafQueue, running, canvas, comp, gpu, app, media, tick, gif, still, ramp, lut>>

\* it rejects: playAttempt.catch(() => handleError())
PlayRejected(s) ==
    /\ Idle
    /\ s \in video.playPending
    /\ video' = [ handleError(video) EXCEPT !.playPending = video.playPending \ {s} ]
    /\ UNCHANGED <<now, rafQueue, running, canvas, comp, gpu, app, media, tick, gif, still, ramp, lut>>

(***************************************************************************)
(* Presentation frames.  A frame takes the callbacks registered so far and  *)
(* runs them in order with one timestamp; a callback that registers again   *)
(* runs in the next frame.                                                  *)
(***************************************************************************)
BeginFrame(jumps, horizon) ==
    /\ Idle
    /\ rafQueue # << >>
    /\ \E dt \in jumps :
          /\ now + dt <= horizon
          /\ now' = now + dt
    /\ running' = rafQueue
    /\ rafQueue' = << >>
    /\ UNCHANGED <<canvas, comp, gpu, app, media, video, tick, gif, still, ramp, lut>>

\* useVideoRef.current && videoRef.current && videoRef.current.readyState >= 2
UseVideoBranch(v) == v.useVideoRef /\ v.element /\ v.readyState >= 2

\* the pixel store and the base texture after the source branch of render
renderGl(g, v) ==
    LET bound == [ g EXCEPT !.program = "program", !.activeUnit = 0,
                            !.units[0] = "baseTexture" ]
    IN  NameObjects(IF UseVideoBranch(v)
                    THEN [ bound EXCEPT !.flipY = TRUE, !.baseImage = "video" ]
                    ELSE [ bound EXCEPT !.flipY = FALSE ],
                    {"program", "baseTexture"})

\* variant for sensitivity runs: a clock that never advances
ShaderTimeFrozen(time) == 0

\* gl.uniform1f(uniforms.time, time * 0.001), held in milliseconds
ShaderTime(time) == time

\* gl.drawArrays: the drawing buffer holds a frame no readPixels has returned
drawArrays(g) == [ g EXCEPT !.unread = TRUE ]

\* variant for sensitivity runs: a read that leaves texture unit 1 active
readPixelsOnUnit1(g) == [ g EXCEPT !.unread = FALSE, !.activeUnit = 1 ]

\* gl.finish(); gl.readPixels(...): the frame in the drawing buffer is returned
readPixels(g) == [ g EXCEPT !.unread = FALSE ]

\* render(time)
RenderTick ==
    /\ running # << >>
    /\ Head(running) = "render"
    /\ gpu' = drawArrays(renderGl(gpu, video))
    /\ tick' = [ branch |-> IF UseVideoBranch(video) THEN "video" ELSE "procedural",
                 flipY |-> gpu'.flipY,
                 image |-> gpu'.baseImage,
                 uTime |-> ShaderTime(now),
                 at |-> now,
                 afterLoss |-> video.lost,
                 loadedRun |-> video.loadedRun,
                 readyState |-> video.readyState,
                 stream |-> video.srcObject ]
    /\ running' = Tail(running)
    /\ rafQueue' = Append(rafQueue, "render")
    /\ UNCHANGED <<now, canvas, comp, app, media, video, gif, still, ramp, lut>>

(***************************************************************************)
(* captureImage.  A caller reaches it through a handle onReady once gave    *)
(* out (app.held); App.handleExportStill goes through previewHandle.        *)
(***************************************************************************)
\* canvasRef.current and glStateRef.current of the instance that made handle h
CanvasOf(h) == comp.inst = h /\ comp.phase = "mounted" /\ canvas.attached
StateOf(h) == comp.inst = h /\ comp.glState

\* variant for sensitivity runs: captureImage without its guard
ImageAlwaysAvailable(hasCanvas) == FALSE

\* if (!canvas) throw new Error("Preview not ready")
ImageUnavailable(hasCanvas) == ~hasCanvas

\* if (!canvas || !state) throw new Error("Preview not ready")
GifUnavailable(hasCanvas, hasState) == ~hasCanvas \/ ~hasState

captureImage(h) ==
    /\ still.st = "none"
    /\ IF ImageUnavailable(CanvasOf(h))
       THEN /\ still' = [ NoStill EXCEPT !.st = "rejected", !.error = "Preview not ready",
                                         !.handleNull = (app.previewHandle = 0) ]
            /\ UNCHANGED rafQueue
       ELSE /\ still' = [ NoStill EXCEPT !.st = "waiting",
                                         !.handleNull = (app.previewHandle = 0) ]
            /\ rafQueue' = Append(rafQueue, "still")

CallCaptureImage ==
    /\ Idle
    /\ \E h \in app.held : captureImage(h)
    /\ UNCHANGED <<now, running, canvas, comp, gpu, app, media, video, tick, gif, ramp, lut>>

\* App.handleExportStill
ExportStill ==
    /\ Idle
    /\ still.st = "none"
    /\ IF app.previewHandle = 0
       THEN /\ app' = [ app EXCEPT !.captureError = "Preview not ready yet." ]
            /\ UNCHANGED <<rafQueue, still>>
       ELSE /\ captureImage(app.previewHandle)
            /\ app' = [ app EXCEPT !.captureError = "" ]
    /\ UNCHANGED <<now, running, canvas, comp, gpu, media, video, tick, gif, ramp, lut>>

\* the awaited frame arrives and canvas.toBlob answers with a blob or with null
StillTick ==
    /\ running # << >>
    /\ Head(running) = "still"
    /\ \E blob \in BOOLEAN :
          still' = IF blob
                   THEN [ still EXCEPT !.st = "resolved", !.hasRead = TRUE, !.bytes = 1 ]
                   ELSE [ still EXCEPT !.st = "rejected", !.hasRead = TRUE,
                                       !.error = "Unable to generate image blob" ]
    /\ running' = Tail(running)
    /\ UNCHANGED <<now, rafQueue, canvas, comp, gpu, app, media, video, tick, gif, ramp, lut>>

(***************************************************************************)
(* captureGif.                                                              *)
(***************************************************************************)
\* values of duration, fps and scale a caller may pass
DurationInputs == { Num(0), Num(250), Num(500), Num(700), NegInf }
FpsInputs == { Num(0), Num(4), Num(10), Num(125), Num(600), Num(604), Num(10000), NegInf, PosInf }
ScaleInputs == { Num(5), Num(10), Num(50), Num(100), Num(500), NaN, PosInf, NegInf }

AllInputs ==
    { [duration |-> d, fps |-> f, scale |-> s] :
        d \in DurationInputs, f \in FpsInputs, s \in ScaleInputs }

\* the calls whose sampling loop is followed tick by tick
TimingInputs ==
    { [duration |-> Num(500), fps |-> Num(600), scale |-> Num(100)],
      [duration |-> Num(0), fps |-> Num(10000), scale |-> Num(500)],
      [duration |-> Num(700), fps |-> Num(125), scale |-> Num(50)],
      [duration |-> Num(500), fps |-> Num(10), scale |-> Num(10)] }

\* App's default settings (2 s, 12 fps, scale 1), and a one-frame clip
ExportInputs ==
    { [duration |-> Num(2000), fps |-> Num(120), scale |-> Num(100)],
      [duration |-> Num(500), fps |-> Num(10), scale |-> Num(10)] }

\* the 2d contexts of the two scratch canvases: both given, or one refused
AllocOutcomes == { "ok", "Unable to allocate capture buffer", "Unable to allocate scaled buffer" }

captureGif(h, in, alloc) ==
    LET called == [ NoGif EXCEPT !.input = in, !.handleNull = (app.previewHandle = 0) ]
    IN  IF GifUnavailable(CanvasOf(h), StateOf(h))
        THEN /\ gif' = [ called EXCEPT !.st = "rejected", !.error = "Preview not ready" ]
             /\ UNCHANGED rafQueue
        ELSE IF alloc # "ok"
        THEN /\ gif' = [ called EXCEPT !.st = "rejected", !.error = alloc ]
             /\ UNCHANGED rafQueue
        ELSE /\ gif' = [ called EXCEPT
                           !.st = "scheduled",
                           !.startCanvas = [w |-> canvas.width, h |-> canvas.height],
                           !.p = DerivedParams(in.duration, in.fps, in.scale,
                                               canvas.width, canvas.height) ]
             /\ rafQueue' = Append(rafQueue, "step")

CallCaptureGif(inputs) ==
    /\ Idle
    /\ gif.st = "none"
    /\ \E h \in app.held, in \in inputs, alloc \in AllocOutcomes : captureGif(h, in, alloc)
    /\ UNCHANGED <<now, running, canvas, comp, gpu, app, media, video, tick, still, ramp, lut>>

\* variant for sensitivity runs: the first capture due one interval after the first tick
StepStartLater(g, t) ==
    IF g.captured = 0
    THEN [ g EXCEPT !.startTime = t, !.nextCapture = t * g.p.sanitizedFps + 1000 ]
    ELSE g

\* step(now) up to the capture: startTime and nextCapture are set on the first tick
StepStart(g, t) ==
    IF g.captured = 0
    THEN [ g EXCEPT !.startTime = t, !.nextCapture = t * g.p.sanitizedFps ]
    ELSE g

\* variant for sensitivity runs: the next capture is due one interval after this tick
StepAdvanceFromNow(g) ==
    [ g EXCEPT !.captured = g.captured + 1, !.nextCapture = now * g.p.sanitizedFps + 1000 ]

\* captured += 1; nextCapture += frameIntervalMs
StepAdvance(g) ==
    [ g EXCEPT !.captured = g.captured + 1, !.nextCapture = g.nextCapture + 1000 ]

\* the test after the capture: resolve and return, or requestAnimationFrame(step)
StepStops(g, t) == CountReached(g.captured, g.p.frameCount) \/ TimeUp(t, g.startTime, g.p)

\* one tick of the sampling loop; frameOk: captureFrame did not throw
StepTick ==
    /\ running # << >>
    /\ Head(running) = "step"
    /\ running' = Tail(running)
    /\ IF CountReached(gif.captured, gif.p.frameCount)
       THEN /\ gif' = [ gif EXCEPT !.st = "resolved" ]
            /\ UNCHANGED rafQueue
       ELSE LET g1 == StepStart(gif, now)
            IN  IF CaptureDue(now, g1.nextCapture, g1.p.sanitizedFps)
                THEN \E frameOk \in BOOLEAN :
                        IF ~frameOk
                        THEN /\ gif' = [ g1 EXCEPT !.st = "threw", !.hasRead = TRUE,
                                                   !.error = "Indexed frame has unexpected length" ]
                             /\ UNCHANGED rafQueue
                        ELSE LET g2 == StepAdvance(captureFrame(g1, canvas))
                             IN  IF StepStops(g2, now)
                                 THEN /\ gif' = [ g2 EXCEPT !.st = "resolved" ]
                                      /\ UNCHANGED rafQueue
                                 ELSE /\ gif' = g2
                                      /\ rafQueue' = Append(rafQueue, "step")
                ELSE IF StepStops(g1, now)
                     THEN /\ gif' = [ g1 EXCEPT !.st = "resolved" ]
                          /\ UNCHANGED rafQueue
                     ELSE /\ gif' = g1
                          /\ rafQueue' = Append(rafQueue, "step")
    /\ gpu' = IF /\ ~CountReached(gif.captured, gif.p.frameCount)
                 /\ CaptureDue(now, StepStart(gif, now).nextCapture, gif.p.sanitizedFps)
              THEN readPixels(gpu)
              ELSE gpu
    /\ UNCHANGED <<now, canvas, comp, app, media, video, tick, still, ramp, lut>>

(***************************************************************************)
(* Specifications.                                                          *)
(***************************************************************************)
\* frames presented in the specifications that do not follow a sampling loop
MaxFrames == 3
CoarseJumps == { 16 }
CoarseHorizon == MaxFrames * 16

\* tick spacings of the sampling-loop specification, and where its clock ends
FineJumps == { 17, 100, 600 }
FineHorizon == 2000

CoarseFrame == BeginFrame(CoarseJumps, CoarseHorizon)

\* the frames presented while a sampling loop runs
CaptureFrame ==
    /\ gif.st = "scheduled"
    /\ BeginFrame(FineJumps, FineHorizon)

\* lifecycle, readiness handle and capture calls
Next ==
    \/ \E outcome \in InitOutcomes : Mount(outcome)
    \/ \E outcome \in InitOutcomes : Remount(outcome)
    \/ CommitReady
    \/ Unmount
    \/ CallCaptureImage
    \/ ExportStill
    \/ CallCaptureGif(ExportInputs)
    \/ CoarseFrame
    \/ RenderTick
    \/ StillTick
    \/ StepTick

Spec == Init /\ [][Next]_vars

\* the frame source: media hook, video element, render loop
NextVideo ==
    \/ \E outcome \in InitOutcomes : Mount(outcome)
    \/ Unmount
    \/ RequestStream
    \/ GetUserMediaResolved
    \/ GetUserMediaRejected
    \/ StopStream
    \/ TrackEnded
    \/ \E r \in ReadyStates : ReadyStateChange(r)
    \/ LoadedData
    \/ VideoError
    \/ \E s \in 1..MaxStreams : PlayResolved(s)
    \/ \E s \in 1..MaxStreams : PlayRejected(s)
    \/ CoarseFrame
    \/ RenderTick

SpecVideo == Init /\ [][NextVideo]_vars

\* the sampling loop of captureGif under arbitrary tick spacing
NextCapture ==
    \/ Mount("ok")
    \/ CommitReady
    \/ Unmount
    \/ Resize
    \/ CallCaptureGif(TimingInputs)
    \/ CaptureFrame
    \/ RenderTick
    \/ StepTick

SpecCapture == Init /\ [][NextCapture]_vars

\* captureGif called with every combination of inputs
NextSanitize ==
    \/ Mount("ok")
    \/ CommitReady
    \/ Resize
    \/ CallCaptureGif(AllInputs)
    \/ CoarseFrame
    \/ RenderTick
    \/ StepTick

SpecSanitize == Init /\ [][NextSanitize]_vars

\* tick spacings of a display that presents at least once per capture interval
PacedJumps == { 16, 40, 76 }

\* a frame presented no later than frameIntervalMs after the one before
PacedFrame ==
    /\ gif.st = "scheduled"
    /\ BeginFrame({ dt \in PacedJumps : dt * gif.p.sanitizedFps <= 1000 }, FineHorizon)

\* the sampling loop of captureGif under ticks no further apart than its interval
NextPaced ==
    \/ Mount("ok")
    \/ CommitReady
    \/ Unmount
    \/ CallCaptureGif(TimingInputs)
    \/ PacedFrame
    \/ RenderTick
    \/ StepTick

SpecPaced == Init /\ [][NextPaced]_vars

\* ticks keep arriving and every callback of a frame runs
FairSpecCapture ==
    /\ SpecCapture
    /\ WF_vars(CaptureFrame)
    /\ WF_vars(RenderTick)
    /\ WF_vars(StepTick)

(***************************************************************************)
(* The sampler on its own: a caller holds an array of control points and    *)
(* calls generateRampTextureData on it twice; between the two calls it may  *)
(* put the same points in another order.                                    *)
(***************************************************************************)
InitSampler ==
    /\ InitPreview
    /\ ramp = useRampController("linear")
    /\ lut \in { NoCalls(points) : points \in SamplerInputs }

\* generateRampTextureData(points) on the caller's array as it is now
SampleRamp ==
    /\ ~lut.second.made
    /\ LET r == generateRampTextureData(lut.points, RAMP_RESOLUTION)
           call == [ made |-> TRUE, input |-> lut.points, after |-> r.arrays.input,
                    samples |-> r.samples ]
       IN  lut' = [ points |-> r.arrays.input,
                    first |-> IF lut.first.made THEN lut.first ELSE call,
                    second |-> IF lut.first.made THEN call ELSE NoCall ]
    /\ UNCHANGED <<now, rafQueue, running, canvas, comp, gpu, app, media, video, tick, gif,
                   still, ramp>>

\* the caller exchanges two points of its array, once, between the calls
Reorder ==
    /\ lut.first.made
    /\ ~lut.second.made
    /\ lut.points = lut.first.input
    /\ \E points \in Reorderings(lut.points) :
          /\ points # lut.points
          /\ lut' = [ lut EXCEPT !.points = points ]
    /\ UNCHANGED <<now, rafQueue, running, canvas, comp, gpu, app, media, video, tick, gif,
                   still, ramp>>

NextSampler ==
    \/ SampleRamp
    \/ Reorder

SpecSampler == InitSampler /\ [][NextSampler]_vars

(***************************************************************************)
(* The ramp controller on its own: the operations the ramp panel and the    *)
(* ramp editor call on it.                                                  *)
(***************************************************************************)
InitRamp ==
    /\ InitPreview
    /\ ramp \in { useRampController(key) : key \in PresetKeys }
    /\ lut = NoCalls(<< >>)

\* updatePoint(id, next), for the id of any point made so far
UpdatePoint ==
    /\ \E id \in 1..ramp.counter, next \in UpdateInputs :
          ramp' = [ ramp EXCEPT !.points = updatePoint(ramp.points, id, next) ]
    /\ UNCHANGED <<now, rafQueue, running, canvas, comp, gpu, app, media, video, tick, gif,
                   still, lut>>

\* addPoint(x, y) from a double-click between 0.02 and 0.98
AddPoint ==
    /\ ramp.counter < MaxIds
    /\ \E at \in AddInputs :
          LET newPoint == createPoint(ramp.counter + 1, at[1], at[2], FALSE)
          IN  ramp' = [ points |-> addPoint(ramp.points, newPoint),
                        selectedId |-> newPoint.id,
                        counter |-> ramp.counter + 1 ]
    /\ UNCHANGED <<now, rafQueue, running, canvas, comp, gpu, app, media, video, tick, gif,
                   still, lut>>

\* removePoint(id), for the id of any point made so far
RemovePoint ==
    /\ \E id \in 1..ramp.counter :
          ramp' = [ ramp EXCEPT !.points = removePoint(ramp.points, id),
                                !.selectedId = removeSelection(ramp.points, ramp.selectedId, id) ]
    /\ UNCHANGED <<now, rafQueue, running, canvas, comp, gpu, app, media, video, tick, gif,
                   still, lut>>

\* applyPreset(key)
ApplyPreset ==
    /\ \E key \in PresetKeys :
          /\ ramp.counter + Len(presets[key]) <= MaxIds
          /\ LET nextPoints == buildPreset(presets[key], ramp.counter)
             IN  ramp' = [ points |-> nextPoints,
                           selectedId |-> FirstSelectable(nextPoints),
                           counter |-> ramp.counter + Len(nextPoints) ]
    /\ UNCHANGED <<now, rafQueue, running, canvas, comp, gpu, app, media, video, tick, gif,
                   still, lut>>

NextRamp ==
    \/ UpdatePoint
    \/ AddPoint
    \/ RemovePoint
    \/ ApplyPreset

SpecRamp == InitRamp /\ [][NextRamp]_vars

(***************************************************************************)
(* Teardown: the ramp panel and the media hook keep working while the      *)
(* preview is mounted, unmounted and mounted again.                         *)
(***************************************************************************)
\* init effects that end well, before any object exists, and with six in hand
TeardownOutcomes == { "ok", "noContext", "rampTextureYNull" }

\* the values the ramp panel's sliders are moved to
PanelInputs == { BothXY(50, 50) }

\* updatePoint from the ramp panel, and the re-render with the new samples
RampUpdate ==
    /\ Idle
    /\ \E id \in 1..ramp.counter, next \in PanelInputs :
          ramp' = [ ramp EXCEPT !.points = updatePoint(ramp.points, id, next) ]
    /\ gpu' = IF comp.phase = "mounted"
              THEN rampUpdateEffect(gpu, comp.glState, ramp'.points)
              ELSE gpu
    /\ UNCHANGED <<now, rafQueue, running, canvas, comp, app, media, video, tick, gif,
                   still, lut>>

NextTeardown ==
    \/ \E outcome \in TeardownOutcomes : Mount(outcome)
    \/ \E outcome \in TeardownOutcomes : Remount(outcome)
    \/ Unmount
    \/ RampUpdate
    \/ RequestStream
    \/ GetUserMediaResolved
    \/ StopStream
    \/ CoarseFrame
    \/ RenderTick

SpecTeardown == Init /\ [][NextTeardown]_vars

(***************************************************************************)
(* Claims.                                                                  *)
(***************************************************************************)
InQueue(cb, q) == \E k \in 1..Len(q) : q[k] = cb

\* the sampling loop has run a tick and asked for another
LoopWaits == gif.st = "scheduled" /\ gif.captured >= 1 /\ InQueue("step", rafQueue)

\* time since the loop's first tick exceeds duration * 1000 + frameIntervalMs
ElapsedExceeds(t) ==
    (t - gif.startTime) * gif.p.sanitizedFps
        > gif.p.sanitizedDuration * gif.p.sanitizedFps + 1000

\* C1 (safety half): a loop that asked for another tick has neither performed
\* frameCount capture steps nor seen the elapsed time exceed the limit, and a
\* loop that stopped has no tick scheduled.
C1_StopsByThen ==
    /\ LoopWaits => gif.captured < gif.p.frameCount /\ ~ElapsedExceeds(now)
    /\ gif.st # "scheduled" => ~InQueue("step", rafQueue) /\ ~InQueue("step", running)

\* C1: for every captureGif call with finite inputs, whatever the spacing of
\* the ticks, as long as ticks keep arriving with advancing timestamps the
\* sampling loop stops, no later than the first tick at which frameCount
\* steps were performed or the elapsed time exceeds duration*1000 +
\* frameIntervalMs, and it schedules no tick after stopping.
C1_LoopTerminates ==
    /\ []C1_StopsByThen
    /\ (gif.st = "scheduled") ~> (gif.st # "scheduled")

\* the loop was cut short by the clock under throttled ticks
C1_Witness ==
    /\ gif.st = "resolved"
    /\ gif.captured >= 2
    /\ gif.captured < gif.p.frameCount

\* round(duration * fps) from the sanitized duration (ms) and fps
RoundedFrames == (2 * gif.p.sanitizedDuration * gif.p.sanitizedFps + 1000) \div 2000

\* C2: under any tick schedule the number of capture steps performed never
\* exceeds round(duration*fps)+1 of the sanitized inputs; for duration 0.5
\* and fps 60 at most 31.
C2_FrameBound ==
    gif.st # "none" =>
        /\ gif.captured <= RoundedFrames + 1
        /\ (gif.p.sanitizedDuration = 500 /\ gif.p.sanitizedFps = 60) => gif.captured <= 31

\* duration 0.5 at 60 fps ran to its full count
C2_Witness ==
    /\ gif.st = "resolved"
    /\ gif.input.duration = Num(500)
    /\ gif.input.fps = Num(600)
    /\ gif.captured = 30

\* the nearest bound of each input: duration >= 0.5, fps in [1,60], scale in [0.1,1]
NearestDuration(d) == IF NumLess(d, Num(500)) THEN Num(500) ELSE d
NearestFps(f) ==
    IF NumLess(f, Num(10)) THEN Num(10) ELSE IF NumLess(Num(600), f) THEN Num(600) ELSE f
NearestScale(s) ==
    IF NumLess(s, Num(10)) THEN Num(10) ELSE IF NumLess(Num(100), s) THEN Num(100) ELSE s

\* no rejection names an input
NotRejectedForInput ==
    gif.st = "rejected" => gif.error \in ({"Preview not ready"} \cup AllocOutcomes)

\* C3 as stated: no call is rejected for an out-of-range input, and every
\* out-of-range duration, fps or scale gives the derived parameters (and so
\* the tick-by-tick behaviour) of the nearest bound.
C3_AsStated ==
    /\ NotRejectedForInput
    /\ gif.st \in {"scheduled", "resolved", "threw"} =>
          gif.p = DerivedParams(NearestDuration(gif.input.duration),
                                NearestFps(gif.input.fps),
                                NearestScale(gif.input.scale),
                                gif.startCanvas.w, gif.startCanvas.h)

\* C3 amended: the same for every finite input; a scale that is not finite
\* (NaN, Infinity, -Infinity) gives the parameters of scale 1.
C3_ClampsToNearest ==
    /\ NotRejectedForInput
    /\ gif.st \in {"scheduled", "resolved", "threw"} =>
          gif.p = DerivedParams(NearestDuration(gif.input.duration),
                                NearestFps(gif.input.fps),
                                IF IsFinite(gif.input.scale)
                                THEN NearestScale(gif.input.scale) ELSE Num(100),
                                gif.startCanvas.w, gif.startCanvas.h)

\* fps=1000, scale=5, duration=0 was accepted with the parameters of 60, 1, 0.5
C3_Witness ==
    /\ gif.st = "scheduled"
    /\ gif.input = [duration |-> Num(0), fps |-> Num(10000), scale |-> Num(500)]
    /\ gif.p.sanitizedFps = 60
    /\ gif.p.sanitizedScale = 100
    /\ gif.p.sanitizedDuration = 500

\* C4: every capture step reads back the width and height the canvas had
\* when captureGif was called and writes a frame of the size derived from
\* them, whatever resizes happened since.
C4_DimensionsFixed ==
    gif.lastFrame # NoFrame =>
        /\ gif.lastFrame.readWidth = gif.startCanvas.w
        /\ gif.lastFrame.readHeight = gif.startCanvas.h
        /\ gif.lastFrame.outWidth =
              IntMax(1, (2 * gif.startCanvas.w * gif.p.sanitizedScale + 100) \div 200)
        /\ gif.lastFrame.outHeight =
              IntMax(1, (2 * gif.startCanvas.h * gif.p.sanitizedScale + 100) \div 200)

\* a capture step ran after the canvas had been resized
C4_Witness ==
    /\ gif.captured >= 2
    /\ gif.lastFrame.resized

\* C5: a render tick that runs after a ready live source was lost (stream
\* became null, status left "active", or the element fired error) and before
\* a new source became ready takes the Procedural branch and leaves the
\* upload flip flag false.
C5_ProceduralAfterLoss ==
    tick.afterLoss => tick.branch = "procedural" /\ tick.flipY = FALSE

\* a tick after an error: the element still holds the stream and has data
C5_Witness ==
    /\ tick.afterLoss
    /\ tick.branch = "procedural"
    /\ tick.stream # 0
    /\ tick.readyState >= 2

\* C6: every loss of the live source re-uploads the procedural image, so a
\* render tick that takes the Procedural branch after a loss finds the
\* procedural image in the base texture, never a video frame.
C6_ReuploadOnLoss ==
    (tick.afterLoss /\ tick.branch = "procedural") => tick.image = "procedural"

\* C7: while a stream is supplied, a render tick uploads a video frame only
\* if loadeddata was handled for that stream and readyState >= 2 at the
\* tick; until then every tick takes the Procedural branch and draws the
\* procedural image.
C7_NoUploadBeforeLoaded ==
    tick.stream # 0 =>
        /\ tick.branch = "video" => tick.loadedRun /\ tick.readyState >= 2
        /\ ~tick.loadedRun => tick.branch = "procedural" /\ tick.image = "procedural"

\* C8: the value last delivered through onReady is a handle only while its
\* instance is mounted with the GPU state in place: it is null before
\* initialization completes, after teardown, and for an instance whose
\* initialization failed.
C8_HandleOnlyWhileInitialized ==
    /\ app.previewHandle # 0 =>
          /\ comp.phase = "mounted"
          /\ comp.inst = app.previewHandle
          /\ comp.glState
          /\ comp.isReady
    /\ (comp.phase # "mounted" \/ ~comp.isReady \/ comp.glError # NoError) =>
          app.previewHandle = 0

\* an instance that gave out a handle was torn down, and the handle is null
C8_Witness ==
    /\ comp.phase = "disposed"
    /\ comp.inst \in app.held
    /\ app.previewHandle = 0

\* a capture call made while the handle is null was rejected as unavailable
\* and has read nothing
Unavailable(call) ==
    call.handleNull =>
        call.st = "rejected" /\ call.error = "Preview not ready" /\ ~call.hasRead

\* C9: a captureImage or captureGif call made while the readiness handle is
\* null is rejected with "Preview not ready" without reading the surface and
\* never resolves; App.handleExportStill with a null handle makes no call.
C9_RejectsWhileNull ==
    /\ [](Unavailable(still) /\ Unavailable(gif) /\ (still.handleNull => still.bytes = 0))
    /\ [][app.previewHandle = 0 /\ app'.captureError # app.captureError =>
            /\ app'.captureError = "Preview not ready yet."
            /\ still' = still
            /\ rafQueue' = rafQueue]_vars

\* both operations were called through a handle kept after teardown
C9_Witness ==
    /\ still.handleNull /\ still.st = "rejected"
    /\ gif.handleNull /\ gif.st = "rejected"
    /\ app.captureError = "Preview not ready yet."

\* the instance's initialization failed
InitFailed == comp.inst > 0 /\ comp.glError # NoError

\* C10: an instance whose initialization failed holds its error message
\* from then on, has no GPU state, has no render tick scheduled and never
\* runs one, and its init effect ran once.
C10_InitFailureTerminal ==
    /\ [](InitFailed =>
            /\ ~comp.glState
            /\ ~comp.isReady /\ ~comp.isReadyQueued
            /\ ~comp.animationRef
            /\ ~InQueue("render", rafQueue) /\ ~InQueue("render", running)
            /\ tick = NoTick
            /\ comp.initRuns = 1)
    /\ [][InitFailed /\ comp'.inst = comp.inst => comp'.glError = comp.glError]_vars

\* a link failure, in a frame presented after it
C10_Witness ==
    /\ comp.glError = "program info log"
    /\ comp.phase = "mounted"
    /\ now > 0

\* the step is the teardown of the mounted instance
Teardown == comp.phase = "mounted" /\ comp'.phase = "disposed"

\* C11: teardown after a successful initialization deletes each of the
\* seven GPU objects exactly once and clears the GPU state; teardown of an
\* instance whose initialization did not succeed deletes nothing.
C11_TeardownDeletesOnce ==
    /\ [](\A o \in AllObjects : gpu.deleted[o] <= 1)
    /\ [][Teardown =>
            IF comp.glState
            THEN /\ \A o \in AllObjects : gpu'.deleted[o] = gpu.deleted[o] + 1
                 /\ gpu'.alive = {}
                 /\ ~comp'.glState
            ELSE /\ gpu'.deleted = gpu.deleted
                 /\ gpu'.alive = gpu.alive
                 /\ ~comp'.glState]_vars

\* an initialized instance was torn down: seven objects, each deleted once
C11_Witness ==
    /\ comp.phase = "disposed"
    /\ comp.glError = NoError
    /\ gpu.created = AllObjects
    /\ \A o \in AllObjects : gpu.deleted[o] = 1

\* C12: once an instance has been disposed, after an initialization that
\* succeeded or failed at any step, every GPU object it created has been
\* deleted: no object of its context is left alive.
C12_NoLeakAfterDispose ==
    comp.phase = "disposed" => gpu.alive = {}

\* a render tick has run for the mounted instance
Ticked == tick.branch # "none"

\* C13 as stated: the value pushed to uTime at a render tick is the time
\* since this instance's render loop was started, so a loop started after a
\* dispose counts from zero again; and it never decreases between ticks.
C13_AsStated ==
    /\ [](Ticked => tick.uTime = tick.at - comp.loopStart)
    /\ [][Ticked /\ tick'.branch # "none" => tick'.uTime >= tick.uTime]_vars

\* C13 amended: the value pushed to uTime is the timestamp the frame
\* callback received, measured from the page's time origin; it never
\* decreases between ticks and does not restart when a new instance is
\* initialized after a dispose.
C13_PageTime ==
    /\ [](Ticked => tick.uTime = tick.at)
    /\ [][Ticked /\ tick'.branch # "none" => tick'.uTime >= tick.uTime]_vars

\* the second instance's loop ticks with a time beyond its own age
C13_Witness ==
    /\ comp.inst = 2
    /\ Ticked
    /\ comp.loopStart > 0
    /\ tick.uTime > tick.at - comp.loopStart

\* the sampler calls that have returned
SamplerCalls == { c \in { lut.first, lut.second } : c.made }

OutsideUnit(p) == p.x < 0 \/ p.x > 4 \/ p.y < 0 \/ p.y > 4

\* C14: whatever collection the sampler is given (empty, a single point,
\* unsorted, with duplicate x, with coordinates outside [0,1]) it returns
\* exactly 256 entries, each an integer from 0 to 255.
C14_LutShape ==
    \A c \in SamplerCalls :
        /\ Len(c.samples) = 256
        /\ \A i \in 1..Len(c.samples) : c.samples[i] \in 0..255

\* a call has returned 256 entries for three points that were unsorted,
\* shared an x and had a coordinate outside [0,1]
C14_Witness ==
    \E c \in SamplerCalls :
        /\ Len(c.input) = 3
        /\ Len(c.samples) = 256
        /\ c.input[1].x > c.input[2].x
        /\ c.input[2].x = c.input[3].x
        /\ \E i \in 1..3 : OutsideUnit(c.input[i])

\* C15: for the empty collection the sampler returns 256 entries that are
\* all 127.
C15_EmptyIsMidGray ==
    \A c \in SamplerCalls :
        c.input = << >> => c.samples = [ i \in 1..256 |-> 127 ]

\* the sampler has returned for the empty collection
C15_Witness == lut.first.made /\ lut.first.input = << >> /\ lut.first.samples[1] = 127

\* round(255 * y) for a y in quarters
Round255(y) == (2 * 255 * y + 4) \div 8

ClampedX(p) == clamp(p.x, 0, 4)
ClampedY(p) == clamp(p.y, 0, 4)

DistinctX(points) ==
    \A i, j \in 1..Len(points) : i # j => points[i].x # points[j].x

DistinctClampedX(points) ==
    \A i, j \in 1..Len(points) : i # j => ClampedX(points[i]) # ClampedX(points[j])

LowestX(points) ==
    CHOOSE p \in { points[i] : i \in 1..Len(points) } :
        \A i \in 1..Len(points) : p.x <= points[i].x

HighestX(points) ==
    CHOOSE p \in { points[i] : i \in 1..Len(points) } :
        \A i \in 1..Len(points) : p.x >= points[i].x

\* C16 as stated: for points with distinct x, every index i with i/255 at or
\* below the lowest clamped x holds round(255*y) of the lowest-x point, and
\* every index with i/255 at or above the highest clamped x holds
\* round(255*y) of the highest-x point; so a single point gives a constant
\* LUT, and [{0.5, 1}] gives LUT[0] = LUT[127] = LUT[255] = 255.
C16_AsStated ==
    \A c \in SamplerCalls :
        /\ Len(c.input) >= 1 /\ DistinctX(c.input) =>
              LET lo == LowestX(c.input)
                  hi == HighestX(c.input)
              IN  \A i \in 0..255 :
                    /\ 4 * i <= 255 * ClampedX(lo) => c.samples[i + 1] = Round255(lo.y)
                    /\ 4 * i >= 255 * ClampedX(hi) => c.samples[i + 1] = Round255(hi.y)
        /\ c.input = << [ x |-> 2, y |-> 4 ] >> =>
              c.samples[1] = 255 /\ c.samples[128] = 255 /\ c.samples[256] = 255

\* C16 amended: for points whose x are distinct after clamping to [0,1],
\* every index i with i/255 at or below the lowest clamped x holds
\* round(255*y) for the y, clamped to [0,1], of the point with that x, and
\* every index with i/255 at or above the highest clamped x holds the same
\* for the point with the highest clamped x; a single point gives a
\* constant LUT, and [{0.5, 1}] gives LUT[0] = LUT[127] = LUT[255] = 255.
C16_FlatExtension ==
    \A c \in SamplerCalls :
        /\ Len(c.input) >= 1 /\ DistinctClampedX(c.input) =>
              LET lo == LowestX(c.input)
                  hi == HighestX(c.input)
              IN  \A i \in 0..255 :
                    /\ 4 * i <= 255 * ClampedX(lo) =>
                          c.samples[i + 1] = Round255(ClampedY(lo))
                    /\ 4 * i >= 255 * ClampedX(hi) =>
                          c.samples[i + 1] = Round255(ClampedY(hi))
        /\ c.input = << [ x |-> 2, y |-> 4 ] >> =>
              c.samples[1] = 255 /\ c.samples[128] = 255 /\ c.samples[256] = 255

\* a call has returned for unsorted points with distinct clamped x, one of
\* them outside the unit square, the lowest of them right of x = 0
C16_Witness ==
    \E c \in SamplerCalls :
        /\ Len(c.input) >= 2
        /\ DistinctClampedX(c.input)
        /\ c.input[1].x > c.input[2].x
        /\ ClampedX(LowestX(c.input)) > 0
        /\ \E i \in 1..Len(c.input) : OutsideUnit(c.input[i])

NonIncreasingY(points) ==
    \A i \in 1..(Len(points) - 1) : points[i].y >= points[i + 1].y

NonIncreasingLut(samples) ==
    \A i \in 1..(Len(samples) - 1) : samples[i] >= samples[i + 1]

PointsAt(points, x) == { points[i] : i \in { k \in 1..Len(points) : points[k].x = x } }

InUnitSquare(points) == \A i \in 1..Len(points) : ~OutsideUnit(points[i])

\* what C17 promises of one call once its condition on the points is met
MonotoneWithEnds(c) ==
    /\ NonIncreasingLut(c.samples)
    /\ PointsAt(c.input, 0) # {} /\ PointsAt(c.input, 4) # {} =>
          /\ \E p \in PointsAt(c.input, 0) : c.samples[1] = Round255(p.y)
          /\ \E p \in PointsAt(c.input, 4) : c.samples[256] = Round255(p.y)
    /\ c.input = << [ x |-> 0, y |-> 4 ], [ x |-> 4, y |-> 0 ] >> =>
          c.samples[1] = 255 /\ c.samples[256] = 0

\* C17 as stated: if the control points, taken in increasing x order (points
\* sharing an x in the order supplied), have non-increasing y, the LUT is
\* non-increasing over its 256 indices, and when there are points at x = 0
\* and x = 1, LUT[0] and LUT[255] are round(255*y) of those points;
\* [{0,1},{1,0}] gives LUT[0] = 255 and LUT[255] = 0.
C17_AsStated ==
    \A c \in SamplerCalls :
        Len(c.input) >= 1 /\ NonIncreasingY(SortByX(c.input)) => MonotoneWithEnds(c)

\* C17 amended: the same for control points whose x and y lie in [0,1].
C17_MonotoneInUnitSquare ==
    \A c \in SamplerCalls :
        /\ Len(c.input) >= 1
        /\ InUnitSquare(c.input)
        /\ NonIncreasingY(SortByX(c.input))
        => MonotoneWithEnds(c)

\* a call has returned a falling LUT for three unsorted points of the unit
\* square, with points at x = 0 and x = 1, whose y do not rise with x
C17_Witness ==
    \E c \in SamplerCalls :
        /\ Len(c.input) = 3
        /\ InUnitSquare(c.input)
        /\ c.input[1].x > c.input[2].x
        /\ NonIncreasingY(SortByX(c.input))
        /\ PointsAt(c.input, 0) # {} /\ PointsAt(c.input, 4) # {}
        /\ c.samples[1] > c.samples[128] /\ c.samples[128] > c.samples[256]

CalledReordered ==
    /\ lut.second.made
    /\ lut.second.input # lut.first.input
    /\ lut.second.input \in Reorderings(lut.first.input)

\* no two of the points fall on the same x with different y, after clamping
NoStepAtOneX(points) ==
    \A i, j \in 1..Len(points) :
        ClampedX(points[i]) = ClampedX(points[j]) => ClampedY(points[i]) = ClampedY(points[j])

\* C19 as stated: the LUT depends on the collection of points only, not on
\* the order they are supplied in: the same points in another order, points
\* sharing an x with different y included, give the same LUT.
C19_AsStated ==
    CalledReordered => lut.second.samples = lut.first.samples

\* C19 amended: the same points in another order give the same LUT provided
\* no two of them share an x, after clamping, with different y.
C19_OrderFreeWithoutSteps ==
    CalledReordered /\ NoStepAtOneX(lut.first.input) =>
        lut.second.samples = lut.first.samples

\* three points with distinct clamped x were sampled in two different orders
C19_Witness ==
    /\ CalledReordered
    /\ Len(lut.first.input) = 3
    /\ DistinctClampedX(lut.first.input)
    /\ lut.second.samples = lut.first.samples
    /\ lut.first.samples[1] # lut.first.samples[256]

\* the points of the ramp that are locked
LockedPoints(points) == { points[i] : i \in { k \in 1..Len(points) : points[k].locked } }

\* the ramp begins with a locked point at x = 0, ends with a locked point
\* at x = 1, and has no other locked point
EndpointsInPlace ==
    LET points == ramp.points
        n == Len(points)
    IN  /\ n >= 2
        /\ points[1].locked /\ points[1].x = 0
        /\ points[n].locked /\ points[n].x = 100
        /\ \A i \in 2..(n - 1) : ~points[i].locked

\* the step left every point in place: it was no applyPreset, which makes
\* at least two new points and drops all the old ones
EditedInPlace == ramp'.counter <= ramp.counter + 1

\* every locked point is still in the ramp, locked and at the x it had
LockedKept ==
    \A p \in LockedPoints(ramp.points) :
        \E q \in LockedPoints(ramp'.points) : q.id = p.id /\ q.x = p.x

\* C20: after any sequence of updatePoint, addPoint, removePoint and
\* applyPreset the ramp has its two locked endpoints, the first point at
\* x = 0 and the last at x = 1; updatePoint, addPoint and removePoint never
\* remove a locked point and never change its x, and applyPreset puts the
\* locked endpoints of the preset in their place.
C20_LockedEndpoints ==
    /\ []EndpointsInPlace
    /\ [][EditedInPlace => LockedKept]_vars

\* a point was added, a point was removed and the y of both endpoints was
\* edited, in a ramp of three points whose endpoints are where they were
C20_Witness ==
    /\ Len(ramp.points) = 3
    /\ ramp.counter = 4
    /\ EndpointsInPlace
    /\ ramp.points[1].id = 1 /\ ramp.points[1].y # 100
    /\ ramp.points[3].id = 2 /\ ramp.points[3].y # 0

\* the step callback of the sampling loop runs in this step
StepRuns == running # << >> /\ Head(running) = "step" /\ running' = Tail(running)

\* the instant the next capture is due, times sanitizedFps: the loop's first
\* tick for the first capture, one frameIntervalMs later for each capture made
DueInstant(g, t) ==
    IF g.captured = 0 THEN t * g.p.sanitizedFps
    ELSE g.startTime * g.p.sanitizedFps + g.captured * 1000

\* C21: a tick of the sampling loop runs at most one capture step, and runs
\* it exactly when the tick's timestamp has reached the due instant; the due
\* instant is the first tick's timestamp and moves on by frameIntervalMs for
\* each captured frame, so the k-th capture is due at
\* start + (k-1)*frameIntervalMs however late the ticks came.
C21_OneCapturePerDueTick ==
    /\ [](gif.captured >= 1 =>
            gif.nextCapture = gif.startTime * gif.p.sanitizedFps + gif.captured * 1000)
    /\ [][StepRuns =>
            /\ gif'.captured \in { gif.captured, gif.captured + 1 }
            /\ gif'.st # "threw" =>
                  (gif'.captured = gif.captured + 1
                     <=> now * gif.p.sanitizedFps >= DueInstant(gif, now))]_vars

\* two frames are captured, the second at a tick that came after it was due,
\* and the third is not yet due
C21_Witness ==
    /\ gif.st = "scheduled"
    /\ gif.captured = 2
    /\ now * gif.p.sanitizedFps > gif.startTime * gif.p.sanitizedFps + 1000
    /\ now * gif.p.sanitizedFps < gif.nextCapture

\* C22: once the instance is torn down no render tick is pending or running,
\* so none executes and none is rescheduled; and no GPU call of a render tick,
\* a ramp update or a source switch has named an object that was already
\* deleted.
C22_NoTickAfterTeardown ==
    /\ comp.phase = "disposed" =>
          /\ ~InQueue("render", rafQueue)
          /\ ~InQueue("render", running)
          /\ tick = NoTick
    /\ gpu.stale = {}

\* torn down with a render tick pending; frames, a ramp update and a source
\* switch came after the teardown
C22_Witness ==
    /\ comp.phase = "disposed"
    /\ comp.animationRef
    /\ gpu.deleted["program"] = 1
    /\ gpu.rampPoints # ramp.points
    /\ media.mediaState.stream # 0
    /\ now > comp.loopStart

\* a capture step of the call raised and the call's promise is still pending
StepRaised == gif.st = "threw"

\* C23: a captureGif call one of whose capture steps raised an error settles
\* with a rejection; it does not stay pending forever.
C23_RaisedStepRejects == StepRaised ~> (gif.st = "rejected")

\* a tick of the sampling loop that performs a capture step
CaptureStep == StepRuns /\ gif'.captured = gif.captured + 1

\* C24: between any two consecutive capture steps of one captureGif call the
\* render loop has drawn a new frame: every capture step after the call's
\* first reads a frame that no earlier capture step has read.
C24_RenderBetweenCaptures ==
    [][CaptureStep /\ gif.captured >= 1 => gpu.unread]_vars

\* the GL state render relies on: current program, active texture unit, the
\* textures bound to units 0..2, UNPACK_FLIP_Y_WEBGL, and the viewport (the
\* size resize() gave the canvas)
RenderState == <<gpu.program, gpu.activeUnit, gpu.units, gpu.flipY, canvas.width, canvas.height>>

\* C25: a capture step, whether it appends a frame or raises, leaves the
\* active program, the active texture unit, the textures bound to units 0, 1
\* and 2, the upload flip flag and the viewport as they were before it.
C25_CaptureKeepsGlState ==
    [][StepRuns /\ (CaptureStep \/ gif'.st = "threw") => RenderState' = RenderState]_vars

\* a capture step has run between two render ticks of a mounted preview
C25_Witness ==
    /\ comp.phase = "mounted"
    /\ gif.captured >= 2
    /\ ~gpu.unread
    /\ gpu.program = "program"
    /\ gpu.units[0] = "baseTexture"
    /\ InQueue("render", rafQueue)

\* C26: useVideoRef and videoReadyRef hold the same value after every stream
\* change, status change, loadeddata event and error event.
C26_FlagsInSync == video.useVideoRef = video.videoReadyRef

\* a call that passed the guard, with duration >= 0.5, fps in [1,60] and
\* scale in [0.1,1.0]
InRangeCall ==
    /\ gif.st \in {"scheduled", "resolved", "threw"}
    /\ IsFinite(gif.input.duration) /\ gif.input.duration.v >= 500
    /\ IsFinite(gif.input.fps) /\ gif.input.fps.v >= 10 /\ gif.input.fps.v <= 600
    /\ IsFinite(gif.input.scale) /\ gif.input.scale.v >= 10 /\ gif.input.scale.v <= 100

\* duration and scale are used as passed
DurationAndScaleKept ==
    /\ gif.p.sanitizedDuration = gif.input.duration.v
    /\ gif.p.sanitizedScale = gif.input.scale.v

\* C27 as stated: in-range inputs are used unchanged, so frameIntervalMs is
\* 1000 / fps and frameCount is max(1, round(duration * fps)) for the fps the
\* caller passed, integer or not.
C27_AsStated ==
    InRangeCall =>
        /\ DurationAndScaleKept
        /\ gif.p.frameIntervalMs.num * gif.input.fps.v = 10000 * gif.p.frameIntervalMs.den
        /\ gif.p.frameCount =
              IntMax(1, (2 * gif.input.duration.v * gif.input.fps.v + 10000) \div 20000)

\* the passed fps (in tenths) rounded to the nearest integer, halves upward
RoundedFps == (2 * gif.input.fps.v + 10) \div 20

\* C27 amended: an in-range duration and scale are used unchanged and an
\* in-range fps is rounded to the nearest integer; frameIntervalMs is 1000
\* divided by the rounded fps and frameCount is max(1, round(duration *
\* rounded fps)).
C27_RoundsFps ==
    InRangeCall =>
        /\ DurationAndScaleKept
        /\ gif.p.sanitizedFps = RoundedFps
        /\ gif.p.frameIntervalMs = [num |-> 1000, den |-> RoundedFps]
        /\ gif.p.frameCount =
              IntMax(1, (2 * gif.input.duration.v * RoundedFps + 1000) \div 2000)

\* fps 12.5 was accepted and used as 13
C27_Witness ==
    /\ InRangeCall
    /\ gif.input = [duration |-> Num(700), fps |-> Num(125), scale |-> Num(50)]
    /\ gif.p.sanitizedFps = 13
    /\ gif.p.frameCount = 9

\* C28: when consecutive ticks are never further apart than frameIntervalMs,
\* a sampling loop that finishes has captured exactly frameCount =
\* max(1, round(duration * fps)) frames; the wall-clock cutoff does not end it
\* earlier.
C28_PacedLoopReachesCount ==
    gif.st = "resolved" =>
        /\ gif.captured = gif.p.frameCount
        /\ gif.captured = IntMax(1, RoundedFrames)

\* a nine-frame loop at 13 fps finished under ticks of mixed spacing, only
\* after the nominal duration had passed
C28_Witness ==
    /\ gif.st = "resolved"
    /\ gif.p.sanitizedFps = 13
    /\ gif.captured = 9
    /\ now - gif.startTime > gif.p.sanitizedDuration - 76
    /\ (now - gif.startTime) % 16 # 0

\* the promise of the play() call made for s settles in this step, and s is
\* no longer the stream the element holds
StaleSettled(s) ==
    /\ s \in video.playPending
    /\ s \notin video'.playPending
    /\ s # video.srcObject

\* useVideoRef, videoReadyRef and the videoReady state
SourceFlags == <<video.useVideoRef, video.videoReadyRef, video.videoReady>>

\* C29: a play() rejection (or resolution) that belongs to a stream since
\* replaced or removed leaves the source flags of the current stream as they
\* are; in particular it does not turn video use off once the current stream
\* has fired loadeddata.
C29_StaleCallbackIgnored ==
    [][(\E s \in 1..MaxStreams : StaleSettled(s)) => SourceFlags' = SourceFlags]_vars

\* the first tick of a sampling loop: no capture step has run yet
FirstTick == StepRuns /\ gif.captured = 0 /\ gif.st = "scheduled"

\* C30: the first tick of a sampling loop performs a capture step (it appends
\* a frame, or the step raises), and every loop that finished has appended at
\* least one frame.
C30_FirstTickCaptures ==
    /\ [](gif.st = "resolved" => gif.captured >= 1 /\ gif.frameIndex >= 1 /\ gif.hasRead)
    /\ [][FirstTick => gif'.hasRead /\ (gif'.captured = 1 \/ gif'.st = "threw")]_vars

\* a one-frame loop finished on its first tick, its frame appended
C30_Witness ==
    /\ gif.st = "resolved"
    /\ gif.p.frameCount = 1
    /\ gif.frameIndex = 1
    /\ now = gif.startTime

====
